---- MODULE Spec2Model ----
(***************************************************************************)
(* Model of the mix optimizers of the La Pearle' caviar calculators:       *)
(*   optimize_and_rank  (src/caviar_event_calculator_v4_2.py, 164-246)     *)
(*   optimize_mix       (src/caviar_mix_app_la_pearle.py, 108-144)         *)
(*                                                                         *)
(* Both are pure functions of their arguments; one call is one action.     *)
(* Grams and tin counts are integers.  Money is kept in whole cents, so    *)
(* that the sums and comparisons of the code are exact integer sums and    *)
(* comparisons; the whole-dollar rounding of the alternatives table,       *)
(* int(math.ceil(float(cost))), is the ceiling of cents / 100.             *)
(* The share test (g125 / purchased) * 100.0 > pct is modelled by the      *)
(* exact comparison g125 * 100 > pct * purchased.                          *)
(***************************************************************************)
EXTENDS Integers, Sequences, FiniteSets, TLC

VARIABLES app, args, pc, res_best, alts

vars == <<app, args, pc, res_best, alts>>

(***************************************************************************)
(* Bounds of the model.                                                    *)
(***************************************************************************)
MaxReq == 3
MaxTopK == 2
ExtraUnits == 1
MaxNegReq == 2

(***************************************************************************)
(* Program constants.                                                      *)
(***************************************************************************)
RankMargin == 8
MixMargin == 6

FewestTins == "Fewest tins (recommended)"
BalancedMix == "Balanced mix (cost + per-tin penalty)"
CheapestOnly == "Cheapest only"
Objectives == {FewestTins, BalancedMix, CheapestOnly}

NoFeasibleMix == [error |-> "No feasible mix under current caps/limits."]

(***************************************************************************)
(* math.ceil(a / b) for integers a and b > 0 (a may be negative).          *)
(***************************************************************************)
CeilDiv(a, b) == -((-a) \div b)

(***************************************************************************)
(* grams_required: math.ceil(guests * tastings * g_per_taste).  The widgets *)
(* step tastings by 0.25 and grams per tasting by 0.5: tastings is given   *)
(* in quarters and g_per_taste in halves.                                  *)
(***************************************************************************)
GramsRequired(guests, tastings_q, g_per_taste_h) ==
    CeilDiv(guests * tastings_q * g_per_taste_h, 8)

(* range(n): the number of iterations of "for x in range(n)". *)
RangeLen(n) == IF n > 0 THEN n ELSE 0

(***************************************************************************)
(* Lexicographic order of the 3-tuples the code uses as sort keys.         *)
(***************************************************************************)
KeyLess(k, l) ==
    \/ k[1] < l[1]
    \/ k[1] = l[1] /\ k[2] < l[2]
    \/ k[1] = l[1] /\ k[2] = l[2] /\ k[3] < l[3]

KeyLeq(k, l) == ~KeyLess(l, k)

(***************************************************************************)
(* The enumeration bound of one free-choice kind.                          *)
(***************************************************************************)
(* Mutant: the bound rounded down, without the margin. *)
MaxUnitsFloor(cap, req_g, grams) ==
    IF cap > 0 THEN cap ELSE req_g \div grams

(* Mutant: the cap not consulted. *)
MaxUnitsIgnoreCap(cap, req_g, grams) == CeilDiv(req_g, grams) + RankMargin

MaxUnits(cap, req_g, grams) ==
    IF cap > 0 THEN cap ELSE CeilDiv(req_g, grams) + RankMargin

MixMaxUnits(req_g, grams) == CeilDiv(req_g, grams) + MixMargin

(***************************************************************************)
(* The fill count and the purchased grams of one point of the enumeration. *)
(***************************************************************************)
(* Mutant: the gap divided rounding down. *)
FillCountFloor(req_g, grams_so_far, grams_7) ==
    IF grams_so_far >= req_g THEN 0
    ELSE (req_g - grams_so_far) \div grams_7

(* Mutant: one fill tin more than the gap, rounded down, asks for. *)
FillCountExtra(req_g, grams_so_far, grams_7) ==
    IF grams_so_far >= req_g THEN 0
    ELSE ((req_g - grams_so_far) \div grams_7) + 1

FillCount(req_g, grams_so_far, grams_7) ==
    IF grams_so_far >= req_g THEN 0
    ELSE CeilDiv(req_g - grams_so_far, grams_7)

Purchased(req_g, grams_so_far, grams_7) ==
    grams_so_far + FillCount(req_g, grams_so_far, grams_7) * grams_7

(* Mutant: a share equal to the limit is skipped too, whatever was bought. *)
ShareRejectedInclusive(a, g125, purchased) ==
    /\ a.cap_125_share_on
    /\ g125 * 100 >= a.cap_125_share_pct * purchased

(* Mutant: the share compared as a fraction with the percentage. *)
ShareRejectedFraction(a, g125, purchased) ==
    /\ a.cap_125_share_on
    /\ purchased > 0
    /\ g125 > a.cap_125_share_pct * purchased

(* The share cap: TRUE when the combination is skipped. *)
ShareRejected(a, g125, purchased) ==
    /\ a.cap_125_share_on
    /\ purchased > 0
    /\ g125 * 100 > a.cap_125_share_pct * purchased

(* Mutant: every objective scored as "Balanced mix". *)
ScoreBalancedAlways(a, total_tins, cost, over) ==
    <<cost + a.service_penalty * total_tins, over, total_tins>>

(* Mutant: every objective scored as "Cheapest only". *)
ScoreCheapestAlways(a, total_tins, cost, over) == <<cost, over, total_tins>>

(* Mutant: the per-tin penalty subtracted from the cost. *)
ScorePenaltySubtracted(a, total_tins, cost, over) ==
    IF a.objective = CheapestOnly THEN <<cost, over, total_tins>>
    ELSE IF a.objective = BalancedMix
         THEN <<cost - a.service_penalty * total_tins, over, total_tins>>
         ELSE <<total_tins, cost, over>>

(* The objective's score of a combination. *)
Score(a, total_tins, cost, over) ==
    IF a.objective = CheapestOnly THEN <<cost, over, total_tins>>
    ELSE IF a.objective = BalancedMix
         THEN <<cost + a.service_penalty * total_tins, over, total_tins>>
         ELSE <<total_tins, cost, over>>

(* Mutant: the alternatives sorted by the objective's score. *)
AltKeyByScore(t) == t.score

(* Mutant: the alternatives sorted by cost before tins. *)
AltKeyCostFirst(t) == <<t.cost, t.total_tins, t.over>>

(* The key of the alternatives sort. *)
AltKey(t) == <<t.total_tins, t.cost, t.over>>

(***************************************************************************)
(* The tuple appended to combos for the point (x250, x8, x125).            *)
(***************************************************************************)
Combo(a, x250, x8, x125) ==
    LET grams_so_far == x250 * a.grams_250 + x8 * a.grams_8 + x125 * a.grams_125
        x7 == FillCount(a.req_g, grams_so_far, a.grams_7)
        purchased == Purchased(a.req_g, grams_so_far, a.grams_7)
        total_tins == x250 + x8 + x7 + x125
        cost == x250 * a.price_250 + x8 * a.price_8 + x7 * a.price_7
                  + x125 * a.price_125
        over == purchased - a.req_g
    IN  [score |-> Score(a, total_tins, cost, over),
         total_tins |-> total_tins, cost |-> cost, over |-> over,
         x250 |-> x250, x8 |-> x8, x7 |-> x7, x125 |-> x125,
         purchased |-> purchased]

(***************************************************************************)
(* The three nested loops: the points (x250, x8, x125) in loop order, the  *)
(* innermost index running fastest, and the tuples of those that pass the  *)
(* share cap, in the order they are appended to combos.                    *)
(***************************************************************************)
Enumerated(a) ==
    LET n250 == RangeLen(MaxUnits(a.cap_250, a.req_g, a.grams_250) + 1)
        n8   == RangeLen(MaxUnits(a.cap_8, a.req_g, a.grams_8) + 1)
        n125 == RangeLen(MaxUnits(a.cap_125, a.req_g, a.grams_125) + 1)
    IN  [i \in 1..(n250 * n8 * n125) |->
            Combo(a, (i - 1) \div (n8 * n125), ((i - 1) \div n125) % n8,
                  (i - 1) % n125)]

Survives(a, t) == ~ShareRejected(a, t.x125 * a.grams_125, t.purchased)

(* Mutant: the share cap not applied. *)
CombosUnfiltered(a) == Enumerated(a)

Combos(a) == SelectSeq(Enumerated(a), LAMBDA t : Survives(a, t))

(***************************************************************************)
(* list.sort(key=...) and sorted(..., key=...): a stable sort.  The merge  *)
(* sort below keeps equal keys in their order of arrival, as Python's sort *)
(* does; it splits on the middle element so that its depth is logarithmic. *)
(***************************************************************************)
KeyOf(t, by) == IF by = "score" THEN t.score ELSE AltKey(t)

(* The number of elements of the sorted b[lo..hi] whose key is below k,
   plus lo - 1. *)
RECURSIVE CountBelow(_, _, _, _, _)
CountBelow(b, k, by, lo, hi) ==
    IF lo > hi THEN lo - 1
    ELSE LET mid == (lo + hi) \div 2
         IN  IF KeyLess(KeyOf(b[mid], by), k)
             THEN CountBelow(b, k, by, mid + 1, hi)
             ELSE CountBelow(b, k, by, lo, mid - 1)

(* Merge of the sorted a and b, an element of a before its equals in b. *)
RECURSIVE Merge(_, _, _)
Merge(a, b, by) ==
    IF Len(a) = 0 THEN b
    ELSE IF Len(b) = 0 THEN a
    ELSE LET m == (Len(a) + 1) \div 2
             c == CountBelow(b, KeyOf(a[m], by), by, 1, Len(b))
         IN  Merge(SubSeq(a, 1, m - 1), SubSeq(b, 1, c), by)
               \o <<a[m]>>
               \o Merge(SubSeq(a, m + 1, Len(a)), SubSeq(b, c + 1, Len(b)), by)

RECURSIVE StableSort(_, _)
StableSort(s, by) ==
    IF Len(s) <= 1 THEN s
    ELSE LET m == Len(s) \div 2
         IN  Merge(StableSort(SubSeq(s, 1, m), by),
                   StableSort(SubSeq(s, m + 1, Len(s)), by), by)

(***************************************************************************)
(* The best record and one row of the alternatives table.                  *)
(***************************************************************************)
BestRecord(a, best) ==
    [required_g |-> a.req_g,
     x250 |-> best.x250, x8 |-> best.x8, x7 |-> best.x7, x125 |-> best.x125,
     purchased_g |-> best.purchased,
     overage_g |-> best.over,
     total_cost |-> best.cost,
     total_tins |-> best.total_tins]

(* Mutant: the cost of an alternative rounded down. *)
AltRowFloor(t) ==
    [x250 |-> t.x250, x8 |-> t.x8, x7 |-> t.x7, x125 |-> t.x125,
     total_grams |-> t.purchased, overage |-> t.over,
     total_tins |-> t.total_tins, total_cost |-> t.cost \div 100]

AltRow(t) ==
    [x250 |-> t.x250, x8 |-> t.x8, x7 |-> t.x7, x125 |-> t.x125,
     total_grams |-> t.purchased, overage |-> t.over,
     total_tins |-> t.total_tins, total_cost |-> CeilDiv(t.cost, 100)]

(* Mutant: the 125 g count left out of the tuple that is looked up in seen. *)
MixTupleNoSmall(t) == <<t.x250, t.x8, t.x7>>

MixTuple(t) == <<t.x250, t.x8, t.x7, t.x125>>

(* The loop over alt_sorted from position i on. *)
RECURSIVE AltLoop(_, _, _, _, _)
AltLoop(alt_sorted, i, seen, acc, top_k) ==
    IF i > Len(alt_sorted) THEN acc
    ELSE IF MixTuple(alt_sorted[i]) \in seen
         THEN AltLoop(alt_sorted, i + 1, seen, acc, top_k)
         ELSE LET acc2 == Append(acc, AltRow(alt_sorted[i]))
              IN  IF Len(acc2) >= top_k THEN acc2
                  ELSE AltLoop(alt_sorted, i + 1,
                               seen \cup {MixTuple(alt_sorted[i])}, acc2, top_k)

(***************************************************************************)
(* optimize_and_rank: <<res_best, alts>>.                                  *)
(***************************************************************************)
OptimizeAndRank(a) ==
    LET combos == Combos(a)
    IN  IF Len(combos) = 0 THEN <<NoFeasibleMix, <<>>>>
        ELSE LET sorted == StableSort(combos, "score")
                 alt_sorted == StableSort(sorted, "alt")
             IN  <<BestRecord(a, sorted[1]),
                   AltLoop(alt_sorted, 1, {}, <<>>, a.top_k)>>

(***************************************************************************)
(* optimize_mix: the search of the earlier application.  Its loop keeps    *)
(* the first point whose key (cost, over, total_tins) is below the key of  *)
(* every earlier point; MixBest computes that point over the loop          *)
(* positions lo..hi by halving the range, the earlier half winning ties.   *)
(***************************************************************************)
MixPoint(a, i) ==
    LET n8   == RangeLen(MixMaxUnits(a.req_g, a.grams_8) + 1)
        n125 == RangeLen(MixMaxUnits(a.req_g, a.grams_125) + 1)
        x250 == (i - 1) \div (n8 * n125)
        x8   == ((i - 1) \div n125) % n8
        x125 == (i - 1) % n125
        grams_so_far == x250 * a.grams_250 + x8 * a.grams_8 + x125 * a.grams_125
        x7 == FillCount(a.req_g, grams_so_far, a.grams_7)
        purchased == Purchased(a.req_g, grams_so_far, a.grams_7)
        cost == x250 * a.price_250 + x8 * a.price_8 + x7 * a.price_7
                  + x125 * a.price_125
    IN  [cost |-> cost, over |-> purchased - a.req_g,
         total_tins |-> x250 + x8 + x7 + x125,
         x250 |-> x250, x8 |-> x8, x7 |-> x7, x125 |-> x125,
         purchased |-> purchased]

MixKey(t) == <<t.cost, t.over, t.total_tins>>

RECURSIVE MixBest(_, _, _)
MixBest(a, lo, hi) ==
    IF lo = hi THEN MixPoint(a, lo)
    ELSE LET mid == (lo + hi) \div 2
             l == MixBest(a, lo, mid)
             r == MixBest(a, mid + 1, hi)
         IN  IF KeyLess(MixKey(r), MixKey(l)) THEN r ELSE l

OptimizeMix(a) ==
    LET n250 == RangeLen(MixMaxUnits(a.req_g, a.grams_250) + 1)
        n8   == RangeLen(MixMaxUnits(a.req_g, a.grams_8) + 1)
        n125 == RangeLen(MixMaxUnits(a.req_g, a.grams_125) + 1)
    IN  BestRecord(a, MixBest(a, 1, n250 * n8 * n125))

(***************************************************************************)
(* The arguments the calls are made with.                                  *)
(***************************************************************************)
(* The default tin sizes and prices of both applications. *)
DefaultTins ==
    [grams_250 |-> 250, price_250 |-> 34500, grams_8 |-> 227, price_8 |-> 31200,
     grams_7 |-> 198, price_7 |-> 27300, grams_125 |-> 125, price_125 |-> 12757]

(* Small tin sizes, prices in cents.  In the first the 125 g kind is the
   largest and the cheapest tin; in the second the 250 g and 8 oz kinds are
   the same tin, so that different mixes tie on every key. *)
SmallTins ==
    { [grams_250 |-> 2, price_250 |-> 900, grams_8 |-> 2, price_8 |-> 950,
       grams_7 |-> 1, price_7 |-> 400, grams_125 |-> 3, price_125 |-> 150],
      [grams_250 |-> 3, price_250 |-> 625, grams_8 |-> 3, price_8 |-> 625,
       grams_7 |-> 2, price_7 |-> 500, grams_125 |-> 1, price_125 |-> 150] }

(* Tins that cost nothing: the lowest prices the price widgets accept. *)
FreeTins ==
    [grams_250 |-> 2, price_250 |-> 0, grams_8 |-> 2, price_8 |-> 0,
     grams_7 |-> 1, price_7 |-> 0, grams_125 |-> 3, price_125 |-> 0]

Modes ==
    { [objective |-> FewestTins, service_penalty |-> 0],
      [objective |-> CheapestOnly, service_penalty |-> 800],
      [objective |-> BalancedMix, service_penalty |-> 800] }

Shares ==
    { [cap_125_share_on |-> FALSE, cap_125_share_pct |-> 60],
      [cap_125_share_on |-> TRUE, cap_125_share_pct |-> 60],
      [cap_125_share_on |-> TRUE, cap_125_share_pct |-> 20],
      [cap_125_share_on |-> TRUE, cap_125_share_pct |-> 0] }

Caps ==
    { [cap_250 |-> 0, cap_8 |-> 0, cap_125 |-> 0],
      [cap_250 |-> 1, cap_8 |-> 2, cap_125 |-> 1],
      [cap_250 |-> 2, cap_8 |-> 0, cap_125 |-> 3] }

(* Every free-choice kind capped: a dozen points are enumerated. *)
AllCapped == {c \in Caps : c.cap_250 > 0 /\ c.cap_8 > 0 /\ c.cap_125 > 0}

RankArgs(req_g, tins, mode, share, caps, top_k) ==
    [req_g |-> req_g,
     grams_250 |-> tins.grams_250, price_250 |-> tins.price_250,
     grams_8 |-> tins.grams_8, price_8 |-> tins.price_8,
     grams_7 |-> tins.grams_7, price_7 |-> tins.price_7,
     grams_125 |-> tins.grams_125, price_125 |-> tins.price_125,
     objective |-> mode.objective, service_penalty |-> mode.service_penalty,
     cap_125_share_on |-> share.cap_125_share_on,
     cap_125_share_pct |-> share.cap_125_share_pct,
     cap_250 |-> caps.cap_250, cap_8 |-> caps.cap_8, cap_125 |-> caps.cap_125,
     top_k |-> top_k]

MixArgs(req_g, tins) ==
    [req_g |-> req_g,
     grams_250 |-> tins.grams_250, price_250 |-> tins.price_250,
     grams_8 |-> tins.grams_8, price_8 |-> tins.price_8,
     grams_7 |-> tins.grams_7, price_7 |-> tins.price_7,
     grams_125 |-> tins.grams_125, price_125 |-> tins.price_125]

(* The scenario of 90 guests, 2.0 tastings, 1.5 g per tasting (8 quarters,
   3 halves) on the default tins, with the default top_k. *)
ScenarioReq == GramsRequired(90, 8, 3)
DefaultTopK == 10
ScenarioArgs ==
    RankArgs(ScenarioReq, DefaultTins,
             [objective |-> FewestTins, service_penalty |-> 800],
             [cap_125_share_on |-> FALSE, cap_125_share_pct |-> 60],
             [cap_250 |-> 0, cap_8 |-> 0, cap_125 |-> 0], DefaultTopK)

RankInputs ==
    {RankArgs(r, t, m, s, c, k) :
        r \in 0..MaxReq, t \in SmallTins, m \in Modes, s \in Shares,
        c \in Caps, k \in 1..MaxTopK}
    \cup {RankArgs(0, FreeTins, m, s, c, k) :
            m \in Modes, s \in Shares, c \in Caps, k \in 1..MaxTopK}
    \cup {RankArgs(r, t, m, s, c, DefaultTopK) :
            r \in 0..MaxReq, t \in SmallTins, m \in Modes, s \in Shares,
            c \in AllCapped}
    \cup {ScenarioArgs}

MixInputs ==
    {MixArgs(r, t) : r \in 0..MaxReq, t \in SmallTins}
    \cup {MixArgs(ScenarioReq, DefaultTins)}

(* Arguments no widget produces, passed by a direct call: a negative
   requirement, top_k = 0, a negative share limit. *)
DirectReqs == (0 - MaxNegReq)..MaxReq
DirectShares ==
    Shares \cup {[cap_125_share_on |-> TRUE, cap_125_share_pct |-> -1]}
DirectCaps == {c \in Caps : c.cap_250 > 0}
(* An objective string that is none of the three the selectbox offers. *)
DirectModes ==
    Modes \cup {[objective |-> "Most variety", service_penalty |-> 800]}
DirectInputs ==
    {RankArgs(r, t, m, s, c, k) :
        r \in DirectReqs, t \in SmallTins, m \in DirectModes,
        s \in DirectShares, c \in DirectCaps, k \in 0..MaxTopK}

Pending == [pending |-> TRUE]

(***************************************************************************)
(* The state machine: a call is pending with its arguments, then returns.  *)
(***************************************************************************)
Init ==
    /\ pc = "call"
    /\ res_best = Pending
    /\ alts = <<>>
    /\ \/ app = "event_calculator" /\ args \in RankInputs
       \/ app = "mix_app" /\ args \in MixInputs

InitDirect ==
    /\ pc = "call"
    /\ res_best = Pending
    /\ alts = <<>>
    /\ \/ app = "event_calculator" /\ args \in DirectInputs
       \/ app = "mix_app" /\ args \in MixInputs

CallOptimizeAndRank ==
    /\ pc = "call"
    /\ app = "event_calculator"
    /\ LET r == OptimizeAndRank(args)
       IN  res_best' = r[1] /\ alts' = r[2]
    /\ pc' = "returned"
    /\ UNCHANGED <<app, args>>

CallOptimizeMix ==
    /\ pc = "call"
    /\ app = "mix_app"
    /\ res_best' = OptimizeMix(args)
    /\ pc' = "returned"
    /\ UNCHANGED <<app, args, alts>>

Next == CallOptimizeAndRank \/ CallOptimizeMix

Spec == Init /\ [][Next]_vars

SpecDirect == InitDirect /\ [][Next]_vars

Ranked == pc = "returned" /\ app = "event_calculator"
Mixed == pc = "returned" /\ app = "mix_app"
HasMix == Ranked /\ res_best # NoFeasibleMix

(***************************************************************************)
(* What the claims speak of.                                               *)
(***************************************************************************)
UnitGrams(a, r) ==
    r.x250 * a.grams_250 + r.x8 * a.grams_8 + r.x7 * a.grams_7
      + r.x125 * a.grams_125

(* The enumerated points as a set, and those that pass the share cap. *)
Points(a) ==
    {Combo(a, p[1], p[2], p[3]) :
        p \in (0..MaxUnits(a.cap_250, a.req_g, a.grams_250))
              \X (0..MaxUnits(a.cap_8, a.req_g, a.grams_8))
              \X (0..MaxUnits(a.cap_125, a.req_g, a.grams_125))}

Survivors(a) == {t \in Points(a) : Survives(a, t)}

(* C1: every returned combination, the best and each alternative, buys
   x250*grams_250 + x8*grams_8 + x7*grams_7 + x125*grams_125 grams, at least
   the required grams, and its overage is purchased minus required, >= 0. *)
C1_Feasibility ==
    HasMix =>
        /\ res_best.purchased_g = UnitGrams(args, res_best)
        /\ res_best.purchased_g >= args.req_g
        /\ res_best.overage_g = res_best.purchased_g - args.req_g
        /\ res_best.overage_g >= 0
        /\ \A i \in 1..Len(alts) :
              /\ alts[i].total_grams = UnitGrams(args, alts[i])
              /\ alts[i].total_grams >= args.req_g
              /\ alts[i].overage = alts[i].total_grams - args.req_g
              /\ alts[i].overage >= 0

C1_Witness ==
    /\ HasMix
    /\ args.req_g > 0
    /\ res_best.x7 > 0
    /\ res_best.overage_g > 0
    /\ Len(alts) >= 2
    /\ alts[2].overage > res_best.overage_g

(* C2: under "Fewest tins" no enumerated combination that passes the share
   cap has fewer tins than the best, nor as many tins at a lower cost. *)
C2_FewestTinsMinimal ==
    (HasMix /\ args.objective = FewestTins) =>
        \A t \in Survivors(args) :
            /\ t.total_tins >= res_best.total_tins
            /\ t.total_tins = res_best.total_tins => t.cost >= res_best.total_cost

C2_Witness ==
    /\ HasMix
    /\ args.objective = FewestTins
    /\ args.cap_125_share_on
    /\ res_best.total_tins >= 2
    /\ \E t \in Survivors(args) :
          t.total_tins = res_best.total_tins /\ t.cost > res_best.total_cost
    /\ \E t \in Survivors(args) :
          t.total_tins > res_best.total_tins /\ t.cost < res_best.total_cost

(* C3: with the share cap on at L percent, every returned combination with
   purchased grams > 0 has (x125 * grams_125) * 100 <= L * purchased grams. *)
C3_ShareCap ==
    (HasMix /\ args.cap_125_share_on) =>
        /\ res_best.purchased_g > 0 =>
              res_best.x125 * args.grams_125 * 100
                <= args.cap_125_share_pct * res_best.purchased_g
        /\ \A i \in 1..Len(alts) :
              alts[i].total_grams > 0 =>
                  alts[i].x125 * args.grams_125 * 100
                    <= args.cap_125_share_pct * alts[i].total_grams

(* The cap decides: a returned mix uses the 125 g kind at exactly the limit,
   and an enumerated point with fewer tins than the best was skipped. *)
C3_Witness ==
    /\ HasMix
    /\ args.cap_125_share_on
    /\ args.objective = FewestTins
    /\ res_best.x125 > 0
    /\ res_best.x125 * args.grams_125 * 100
         = args.cap_125_share_pct * res_best.purchased_g
    /\ \E t \in Points(args) :
          ~Survives(args, t) /\ t.total_tins < res_best.total_tins

(* C4 as stated: required 270 g on the default tins, no caps, share cap off,
   "Fewest tins": the best is 1 x 250 g + 1 x 125 g, 2 tins, 375 g bought,
   105 g over. *)
C4_Scenario_AsStated ==
    (Ranked /\ args = ScenarioArgs) =>
        /\ res_best # NoFeasibleMix
        /\ res_best.x250 = 1 /\ res_best.x8 = 0
        /\ res_best.x7 = 0 /\ res_best.x125 = 1
        /\ res_best.total_tins = 2
        /\ res_best.purchased_g = 375
        /\ res_best.overage_g = 105

(* C4 amended: in that scenario the best is 1 x 7 oz + 1 x 125 g, 2 tins,
   323 g bought, 53 g over, at $400.57. *)
C4_Scenario ==
    (Ranked /\ args = ScenarioArgs) =>
        /\ res_best # NoFeasibleMix
        /\ res_best.x250 = 0 /\ res_best.x8 = 0
        /\ res_best.x7 = 1 /\ res_best.x125 = 1
        /\ res_best.total_tins = 2
        /\ res_best.purchased_g = 323
        /\ res_best.overage_g = 53
        /\ res_best.total_cost = 40057

C4_Witness ==
    /\ Ranked
    /\ args = ScenarioArgs
    /\ args.req_g = 270
    /\ Len(alts) = DefaultTopK

(* C5: the alternatives do not depend on the objective or the service
   penalty: a call with the same other arguments under another mode returns
   the same alternatives, entry for entry. *)
ReferenceMode == [objective |-> BalancedMix, service_penalty |-> 300]

WithMode(a, m) ==
    [a EXCEPT !.objective = m.objective, !.service_penalty = m.service_penalty]

C5_AltsIgnoreObjective ==
    Ranked => OptimizeAndRank(WithMode(args, ReferenceMode))[2] = alts

(* "Cheapest only" picks a best that is not the first alternative, and the
   first two alternatives tie on tins, cost and overage. *)
C5_Witness ==
    /\ HasMix
    /\ args.objective = CheapestOnly
    /\ Len(alts) >= 2
    /\ res_best.total_tins > alts[1].total_tins
    /\ alts[1].total_tins = alts[2].total_tins
    /\ alts[1].total_cost = alts[2].total_cost
    /\ alts[1].overage = alts[2].overage

(* C6: the alternatives are in non-decreasing order of (total tins, cost
   before rounding, overage), and no two have the same four unit counts. *)
RawCost(a, r) ==
    r.x250 * a.price_250 + r.x8 * a.price_8 + r.x7 * a.price_7
      + r.x125 * a.price_125

RowKey(a, r) == <<r.total_tins, RawCost(a, r), r.overage>>

C6_AltsSortedUnique ==
    Ranked =>
        \A i, j \in 1..Len(alts) :
            i < j =>
                /\ KeyLeq(RowKey(args, alts[i]), RowKey(args, alts[j]))
                /\ MixTuple(alts[i]) # MixTuple(alts[j])

(* A list in which an entry of fewer tins precedes a cheaper entry of more
   tins, and two entries of as many tins are in order of cost. *)
C6_Witness ==
    /\ HasMix
    /\ \E i, j \in 1..Len(alts) :
          /\ i < j
          /\ alts[i].total_tins < alts[j].total_tins
          /\ RawCost(args, alts[i]) > RawCost(args, alts[j])
    /\ \E i, j \in 1..Len(alts) :
          /\ i < j
          /\ alts[i].total_tins = alts[j].total_tins
          /\ RawCost(args, alts[i]) < RawCost(args, alts[j])

(* C7: the error record with an empty alternatives list is returned exactly
   when no enumerated combination passes the share cap; otherwise a best
   with unit counts and a non-empty alternatives list are returned. *)
C7_InfeasibleIffNoSurvivor ==
    Ranked =>
        IF Survivors(args) = {}
        THEN res_best = NoFeasibleMix /\ alts = <<>>
        ELSE /\ res_best # NoFeasibleMix
             /\ {"x250", "x8", "x7", "x125"} \subseteq DOMAIN res_best
             /\ Len(alts) >= 1

C7_Witness ==
    /\ Ranked
    /\ res_best = NoFeasibleMix
    /\ alts = <<>>
    /\ Points(args) # {}

(* C8: for required grams >= 0, any caps and any share limit >= 0, the
   all-fill combination (0, 0, ceil(required / grams_7), 0) is among the
   surviving combinations, no infeasibility is reported, and the best's
   objective key is not above that combination's. *)
C8_AllFillFound ==
    Ranked =>
        LET fill == Combo(args, 0, 0, 0)
        IN  /\ fill.x7 = CeilDiv(args.req_g, args.grams_7)
            /\ Len(Combos(args)) >= 1
            /\ Combos(args)[1] = fill
            /\ res_best # NoFeasibleMix
            /\ KeyLeq(Score(args, res_best.total_tins, res_best.total_cost,
                            res_best.overage_g), fill.score)

(* No caps, share limit 0: every mix with a 125 g tin is skipped and the
   all-fill combination of several tins is the best. *)
C8_Witness ==
    /\ Ranked
    /\ args.cap_250 = 0 /\ args.cap_8 = 0 /\ args.cap_125 = 0
    /\ args.cap_125_share_on /\ args.cap_125_share_pct = 0
    /\ res_best # NoFeasibleMix
    /\ res_best.x7 = CeilDiv(args.req_g, args.grams_7)
    /\ res_best.x7 >= 2
    /\ res_best.x250 = 0 /\ res_best.x8 = 0 /\ res_best.x125 = 0

(***************************************************************************)
(* C9 speaks of all mixes, enumerated or not: the four-tuples of counts    *)
(* <<x250, x8, x7, x125>>, here with each count up to ExtraUnits above the *)
(* enumeration bound, the fill count up to ExtraUnits above the all-fill   *)
(* count.                                                                  *)
(***************************************************************************)
AllMixes(a, max_250, max_8, max_125) ==
    (0..(max_250 + ExtraUnits)) \X (0..(max_8 + ExtraUnits))
      \X (0..(CeilDiv(a.req_g, a.grams_7) + ExtraUnits))
      \X (0..(max_125 + ExtraUnits))

MixOf(u) == [x250 |-> u[1], x8 |-> u[2], x7 |-> u[3], x125 |-> u[4]]

MixTins(u) == u[1] + u[2] + u[3] + u[4]

(* The mix covers the requirement and passes the share cap of a. *)
Admissible(a, u) ==
    /\ UnitGrams(a, MixOf(u)) >= a.req_g
    /\ ~ShareRejected(a, u[4] * a.grams_125, UnitGrams(a, MixOf(u)))

RankKey(a, u) ==
    Score(a, MixTins(u), RawCost(a, MixOf(u)), UnitGrams(a, MixOf(u)) - a.req_g)

BestKey(a, best) ==
    Score(a, best.total_tins, best.total_cost, best.overage_g)

NoCaps(a) == a.cap_250 = 0 /\ a.cap_8 = 0 /\ a.cap_125 = 0

RankOptimal(a, best) ==
    \A u \in AllMixes(a, MaxUnits(0, a.req_g, a.grams_250),
                      MaxUnits(0, a.req_g, a.grams_8),
                      MaxUnits(0, a.req_g, a.grams_125)) :
        Admissible(a, u) => KeyLeq(BestKey(a, best), RankKey(a, u))

MixOptimal(a, best) ==
    \A u \in AllMixes(a, MixMaxUnits(a.req_g, a.grams_250),
                      MixMaxUnits(a.req_g, a.grams_8),
                      MixMaxUnits(a.req_g, a.grams_125)) :
        UnitGrams(a, MixOf(u)) >= a.req_g =>
            KeyLeq(<<best.total_cost, best.overage_g, best.total_tins>>,
                   <<RawCost(a, MixOf(u)), UnitGrams(a, MixOf(u)) - a.req_g,
                     MixTins(u)>>)

(* C9 as stated: with no caps, under each objective no mix that covers the
   requirement and passes the active share cap has a smaller objective key
   than the best of optimize_and_rank; likewise for optimize_mix and its
   key (cost, overage, total tins). *)
C9_BoundSufficient_AsStated ==
    /\ (HasMix /\ NoCaps(args)) => RankOptimal(args, res_best)
    /\ Mixed => MixOptimal(args, res_best)

(* C9 amended: with no caps and the share cap off, under each objective no
   mix that covers the requirement has a smaller objective key than the
   best of optimize_and_rank; likewise for optimize_mix and its key (cost,
   overage, total tins). *)
C9_BoundSufficient ==
    /\ (HasMix /\ NoCaps(args) /\ ~args.cap_125_share_on) =>
           RankOptimal(args, res_best)
    /\ Mixed => MixOptimal(args, res_best)

(* No caps, share cap off, and the cheapest mix is several 125 g tins with
   nothing over. *)
C9_Witness ==
    /\ HasMix
    /\ NoCaps(args)
    /\ ~args.cap_125_share_on
    /\ args.objective = CheapestOnly
    /\ res_best.x125 >= 2
    /\ res_best.overage_g = 0

(* C10: a configuration with a non-positive grams-per-unit, a negative
   price, a negative requirement or top_k < 1 is rejected: no call of
   optimize_and_rank with it returns a best, the infeasibility record or a
   list of alternatives. *)
InvalidConfig(a) ==
    \/ a.grams_250 <= 0 \/ a.grams_8 <= 0 \/ a.grams_7 <= 0 \/ a.grams_125 <= 0
    \/ a.price_250 < 0 \/ a.price_8 < 0 \/ a.price_7 < 0 \/ a.price_125 < 0
    \/ a.req_g < 0
    \/ a.top_k < 1

C10_InvalidRejected ==
    (Ranked /\ InvalidConfig(args)) =>
        /\ res_best # NoFeasibleMix
        /\ "x250" \notin DOMAIN res_best
        /\ alts = <<>>

(* C11: for a requirement of 0 g, under every objective, caps, prices >= 0
   and share setting, the best has all four counts 0, 0 g bought, 0 g over,
   0 tins and cost 0, and is not the infeasibility record. *)
C11_ZeroRequirement ==
    (Ranked /\ args.req_g = 0) =>
        res_best = [required_g |-> 0, x250 |-> 0, x8 |-> 0, x7 |-> 0,
                    x125 |-> 0, purchased_g |-> 0, overage_g |-> 0,
                    total_cost |-> 0, total_tins |-> 0]

(* Free tins, a share limit of 0 and no caps: nothing is cheaper than the
   empty mix, and it is still the one returned. *)
C11_Witness ==
    /\ Ranked
    /\ args.req_g = 0
    /\ args.objective = BalancedMix
    /\ args.price_250 = 0 /\ args.price_125 = 0
    /\ args.cap_125_share_on /\ args.cap_125_share_pct = 0
    /\ NoCaps(args)
    /\ res_best # NoFeasibleMix
    /\ res_best.total_tins = 0
    /\ Len(alts) >= 2
    /\ alts[2].total_cost = 0

(* C12: in every returned combination the count of a free-choice kind is at
   most its cap when the cap is positive, and at most
   ceil(required / grams per unit) + 8 when the cap is 0; the fill count is
   limited by no cap: it is the count the gap left by the other kinds asks
   for, whatever the caps. *)
WithinCap(count, cap, req_g, grams) ==
    IF cap > 0 THEN count <= cap
    ELSE count * grams <= req_g + (grams - 1) + RankMargin * grams

FreeGrams(a, r) ==
    r.x250 * a.grams_250 + r.x8 * a.grams_8 + r.x125 * a.grams_125

CapsRespected(a, r) ==
    /\ WithinCap(r.x250, a.cap_250, a.req_g, a.grams_250)
    /\ WithinCap(r.x8, a.cap_8, a.req_g, a.grams_8)
    /\ WithinCap(r.x125, a.cap_125, a.req_g, a.grams_125)
    /\ r.x7 * a.grams_7 >= a.req_g - FreeGrams(a, r)

C12_PerKindCaps ==
    HasMix =>
        /\ CapsRespected(args, res_best)
        /\ \A i \in 1..Len(alts) : CapsRespected(args, alts[i])

(* All three caps positive: the best holds more fill tins than any cap
   would allow, and an alternative holds a capped kind at its cap. *)
C12_Witness ==
    /\ HasMix
    /\ args.cap_250 > 0 /\ args.cap_8 > 0 /\ args.cap_125 > 0
    /\ res_best.x7 > args.cap_250
    /\ res_best.x7 > args.cap_8
    /\ res_best.x7 > args.cap_125
    /\ \E i \in 1..Len(alts) : alts[i].x250 = args.cap_250

(* C13: for every enumerated (x250, x8, x125) with free-choice grams S, in
   both applications, the fill count x7 is 0 when S >= required, and
   otherwise the integer >= 1 with (x7 - 1)*grams_7 < required - S
   <= x7*grams_7; x7 is never negative, and a returned combination with
   x7 > 0 has an overage below grams_7. *)
MinimalFill(a, r) ==
    LET gap == a.req_g - FreeGrams(a, r)
    IN  /\ r.x7 >= 0
        /\ IF gap <= 0 THEN r.x7 = 0
           ELSE /\ r.x7 >= 1
                /\ (r.x7 - 1) * a.grams_7 < gap
                /\ gap <= r.x7 * a.grams_7

MixPoints(a) ==
    {MixPoint(a, i) :
        i \in 1..((MixMaxUnits(a.req_g, a.grams_250) + 1)
                  * (MixMaxUnits(a.req_g, a.grams_8) + 1)
                  * (MixMaxUnits(a.req_g, a.grams_125) + 1))}

C13_MinimalFill ==
    /\ Ranked => \A t \in Points(args) : MinimalFill(args, t)
    /\ HasMix =>
          /\ MinimalFill(args, res_best)
          /\ res_best.x7 > 0 => res_best.overage_g < args.grams_7
          /\ \A i \in 1..Len(alts) :
                /\ MinimalFill(args, alts[i])
                /\ alts[i].x7 > 0 => alts[i].overage < args.grams_7
    /\ Mixed =>
          /\ \A t \in MixPoints(args) : MinimalFill(args, t)
          /\ MinimalFill(args, res_best)
          /\ res_best.x7 > 0 => res_best.overage_g < args.grams_7

(* A list with an entry without fill tins, and one where fill tins close
   the gap left by other tins and overshoot by less than one fill tin. *)
C13_Witness ==
    /\ HasMix
    /\ \E i \in 1..Len(alts) :
          /\ alts[i].x7 = 0
          /\ alts[i].total_grams > args.req_g
    /\ \E j \in 1..Len(alts) :
          /\ alts[j].x7 >= 1
          /\ FreeGrams(args, alts[j]) > 0
          /\ alts[j].overage > 0
          /\ alts[j].overage < args.grams_7

(* C14: no two surviving combinations have the same four unit counts, so
   the deduplication removes nothing; for top_k >= 1 the alternatives are
   min(top_k, number of survivors) entries, and they are the first entries
   of the survivors in order of (total_tins, unrounded cost, overage): each
   is a survivor's row, they are in that order, and no survivor left out
   comes before the last of them. *)
Counts(r) == <<r.x250, r.x8, r.x7, r.x125>>

Min(m, n) == IF m <= n THEN m ELSE n

FirstOfSorted(a, list, survivors) ==
    LET listed == {Counts(list[i]) : i \in 1..Len(list)}
    IN  /\ \A i \in 1..Len(list) : \E t \in survivors : AltRow(t) = list[i]
        /\ \A i \in 1..(Len(list) - 1) :
              KeyLeq(RowKey(a, list[i]), RowKey(a, list[i + 1]))
        /\ \A t \in survivors :
              Counts(t) \notin listed =>
                  /\ Len(list) >= 1
                  /\ KeyLeq(RowKey(a, list[Len(list)]),
                            <<t.total_tins, t.cost, t.over>>)

C14_NoDuplicatesLength ==
    (Ranked /\ args.top_k >= 1) =>
        LET combos == Combos(args)
            survivors == {combos[i] : i \in 1..Len(combos)}
        IN  /\ Cardinality({Counts(t) : t \in survivors}) = Len(combos)
            /\ Len(alts) = Min(args.top_k, Len(combos))
            /\ FirstOfSorted(args, alts, survivors)

(* The share cap leaves fewer survivors than top_k asks for: all of them
   are listed. *)
C14_Witness ==
    /\ HasMix
    /\ args.cap_125_share_on
    /\ Len(alts) >= 2
    /\ Len(alts) < args.top_k
    /\ Cardinality(Survivors(args)) = Len(alts)
    /\ Cardinality(Points(args)) > args.top_k

(* C15: under 'Fewest tins', and under any objective string that is none of
   the three, whenever a result is produced the first alternative has the
   four unit counts, the purchased grams, the overage and the total tins of
   the best, and its cost is the best's unrounded cost rounded up to whole
   currency units; the best keeps the unrounded cost, and a cost that is a
   whole number already is left as it is. *)
FewestBranch(a) == a.objective \notin {CheapestOnly, BalancedMix}

C15_BestIsFirstAlternative ==
    (HasMix /\ FewestBranch(args)) =>
        /\ Len(alts) >= 1
        /\ Counts(alts[1]) = Counts(res_best)
        /\ alts[1].total_grams = res_best.purchased_g
        /\ alts[1].overage = res_best.overage_g
        /\ alts[1].total_tins = res_best.total_tins
        /\ res_best.total_cost = RawCost(args, res_best)
        /\ alts[1].total_cost * 100 >= res_best.total_cost
        /\ (alts[1].total_cost - 1) * 100 < res_best.total_cost
        /\ res_best.total_cost % 100 = 0 =>
              alts[1].total_cost * 100 = res_best.total_cost

(* An objective string outside the three, and a best whose cost is not a
   whole number of currency units. *)
C15_Witness ==
    /\ HasMix
    /\ args.objective \notin Objectives
    /\ args.top_k >= 1
    /\ args.req_g > 0
    /\ res_best.total_tins >= 2
    /\ res_best.total_cost % 100 # 0
    /\ Len(alts) >= 1
    /\ alts[1].total_cost * 100 > res_best.total_cost

====
